---- MODULE Spec2Model ----
(***************************************************************************)
(* A model of OfflineTripleExtractor (src/jiebaMethod.py): the four        *)
(* pattern rules, the entity span finders they share, the entity           *)
(* classifier and the post-processing (deduplication and ranking).         *)
(*                                                                         *)
(* Representation.                                                         *)
(*  - A Python string is a sequence of characters.  A CJK character is     *)
(*    written as the string "uXXXX" of its code point (the module's        *)
(*    strings are ASCII); the comment beside each literal shows the text.  *)
(*    String concatenation is \o, '' is <<>>.                              *)
(*  - A part-of-speech tag is a string too: 'ns' is <<"n", "s">>.          *)
(*  - A token of pseg.cut is a record [word, pos].  Python's indices are   *)
(*    kept: words[i] is At(words, i), i from 0.                            *)
(*  - None is the value None below, a sequence no string equals.           *)
(*  - A confidence is kept in hundredths: 0.8 is 80.                       *)
(*  - A triple (the dict of create_triple) is a record with the dict's     *)
(*    seven keys.                                                          *)
(*                                                                         *)
(* The segmenter/tagger (jieba) is outside the repository: analyze_sentence*)
(* is modelled as a choice of any token sequence over a vocabulary.        *)
(***************************************************************************)
EXTENDS Integers, Sequences, FiniteSets, TLC

VARIABLES
    pc,             \* position in extract_triples / extract_from_sentence
    words,          \* the tagged sentence being processed (analyze_sentence)
    ret,            \* the list returned by the rule that ran last
    triples,        \* extract_from_sentence's local list
    nsent,          \* sentences of the text processed so far
    all_triples,    \* extract_triples' accumulator
    final_triples,  \* the list post_process returned
    reprocessed     \* post_process applied to its own output

vars == <<pc, words, ret, triples, nsent, all_triples, final_triples, reprocessed>>

\* Python's None.
None == <<"None">>

\* Python truthiness of a str-or-None value: None and '' are falsy.
Truthy(x) == x # None /\ x # <<>>

\* words[i], i counted from 0 as in the source.
At(s, i) == s[i + 1]

\* str.startswith(prefix) for one prefix.
StartsWith(s, prefix) ==
    /\ Len(s) >= Len(prefix)
    /\ SubSeq(s, 1, Len(prefix)) = prefix

\* kw in entity (substring containment).
Contains(entity, kw) ==
    \E k \in 0..(Len(entity) - Len(kw)) : SubSeq(entity, k + 1, k + Len(kw)) = kw

\* any(kw in entity for kw in keywords)
AnyKeywordIn(entity, keywords) ==
    \E k \in 1..Len(keywords) : Contains(entity, keywords[k])

\* ''.join(parts)
RECURSIVE Join(_)
Join(parts) ==
    IF parts = <<>> THEN <<>> ELSE Head(parts) \o Join(Tail(parts))

(***************************************************************************)
(* init_rules: the lexicons.                                               *)
(***************************************************************************)
\* self.core_verbs (a Python set: the repeated entries collapse)
core_verbs ==
    { <<"u5760", "u6bc1">>,   \* 坠毁
      <<"u53d1", "u5c04">>,   \* 发射
      <<"u7814", "u5236">>,   \* 研制
      <<"u90e8", "u7f72">>,   \* 部署
      <<"u8868", "u793a">>,   \* 表示
      <<"u5206", "u6790">>,   \* 分析
      <<"u6307", "u51fa">>,   \* 指出
      <<"u521b", "u7acb">>,   \* 创立
      <<"u6d89", "u53ca">>,   \* 涉及
      <<"u8fdb", "u884c">>,   \* 进行
      <<"u6267", "u884c">>,   \* 执行
      <<"u6210", "u529f">>,   \* 成功
      <<"u53d6", "u5f97">>,   \* 取得
      <<"u63a8", "u52a8">>,   \* 推动
      <<"u6551", "u8d77">>,   \* 救起
      <<"u9003", "u751f">>,   \* 逃生
      <<"u91c7", "u7528">>,   \* 采用
      <<"u9001", "u5165">>,   \* 送入
      <<"u6784", "u5efa">>,   \* 构建
      <<"u63d0", "u4f9b">>,   \* 提供
      <<"u6807", "u5fd7">>,   \* 标志
      <<"u63a5", "u53d7">>,   \* 接受
      <<"u7ef4", "u6301">>,   \* 维持
      <<"u70ab", "u8000">>,   \* 炫耀
      <<"u80a9", "u8d1f">>,   \* 肩负
      <<"u5bfc", "u81f4">>,   \* 导致
      <<"u9707", "u60ca">>,   \* 震惊
      <<"u5ef6", "u7eed">>,   \* 延续
      <<"u5b8c", "u5584">>,   \* 完善
      <<"u8ba1", "u5212">>,   \* 计划
      <<"u534f", "u540c">>,   \* 协同
      <<"u652f", "u6491">>,   \* 支撑
      <<"u8fc8", "u4e0a">> }   \* 迈上

\* self.prepositions
prepositions ==
    { <<"u5728">>,   \* 在
      <<"u4e8e">>,   \* 于
      <<"u5230">>,   \* 到
      <<"u4ece">>,   \* 从
      <<"u5411">>,   \* 向
      <<"u4e3a">>,   \* 为
      <<"u8ddf">>,   \* 跟
      <<"u548c">>,   \* 和
      <<"u4e0e">>,   \* 与
      <<"u636e">>,   \* 据
      <<"u6839", "u636e">>,   \* 根据
      <<"u6309", "u7167">>,   \* 按照
      <<"u901a", "u8fc7">>,   \* 通过
      <<"u6cbf", "u7740">> }   \* 沿着

\* self.relation_verbs
relation_verbs ==
    { <<"u662f">>,   \* 是
      <<"u4e3a">>,   \* 为
      <<"u6210", "u4e3a">>,   \* 成为
      <<"u5c5e", "u4e8e">>,   \* 属于
      <<"u5305", "u62ec">>,   \* 包括
      <<"u5305", "u542b">> }   \* 包含

\* military_keywords, in list order
military_keywords ==
    << <<"u519b", "u673a">>,   \* 军机
       <<"u76f4", "u5347", "u673a">>,   \* 直升机
       <<"u6218", "u6597", "u673a">>,   \* 战斗机
       <<"u822a", "u6bcd">>,   \* 航母
       <<"u706b", "u7bad">>,   \* 火箭
       <<"u536b", "u661f">>,   \* 卫星
       <<"u8230", "u961f">> >>   \* 舰队

\* location_keywords
location_keywords ==
    << <<"u5357", "u6d77">>,   \* 南海
       <<"u897f", "u660c">>,   \* 西昌
       <<"u4e9a", "u592a">>,   \* 亚太
       <<"u4e2d", "u4e1c">>,   \* 中东
       <<"u52a0", "u5dde">>,   \* 加州
       <<"u5168", "u7403">> >>   \* 全球

\* person_keywords
person_keywords ==
    << <<"u5f20", "u519b", "u793e">>,   \* 张军社
       <<"u5b8b", "u5fe0", "u5e73">>,   \* 宋忠平
       <<"u4e13", "u5bb6">>,   \* 专家
       <<"u4eba", "u5458">> >>   \* 人员

\* org_keywords
org_keywords ==
    << <<"u6d77", "u519b">>,   \* 海军
       <<"u822a", "u5929">>,   \* 航天
       <<"u96c6", "u56e2">>,   \* 集团
       <<"u4e2d", "u5fc3">>,   \* 中心
       <<"u65f6", "u62a5">> >>   \* 时报


\* The literals of rule_apposition and rule_attribution, and the surfaces
\* the vocabulary below uses.
shi == <<"u662f">>                          \* 是
de == <<"u7684">>                           \* 的
wei == <<"u4e3a">>                          \* 为
zhuihui == <<"u5760", "u6bc1">>             \* 坠毁
jihua == <<"u8ba1", "u5212">>               \* 计划
zhishengji == <<"u76f4", "u5347", "u673a">> \* 直升机
nanhai == <<"u5357", "u6d77">>              \* 南海

\* Tags.
tag_n == <<"n">>
tag_ns == <<"n", "s">>
tag_v == <<"v">>
tag_vn == <<"v", "n">>
tag_p == <<"p">>
tag_uj == <<"u", "j">>

(***************************************************************************)
(* is_entity_word, classify_entity, create_triple.                         *)
(***************************************************************************)
\* pos_tag.startswith(('n', 'nr', 'ns', 'nt', 'nz'))
is_entity_word(pos_tag) ==
    \E prefix \in { <<"n">>, <<"n", "r">>, <<"n", "s">>, <<"n", "t">>, <<"n", "z">> } :
        StartsWith(pos_tag, prefix)

classify_entity(entity) ==
    IF ~Truthy(entity) THEN "UNKNOWN"
    ELSE IF AnyKeywordIn(entity, military_keywords) THEN "MILITARY"
    ELSE IF AnyKeywordIn(entity, location_keywords) THEN "LOCATION"
    ELSE IF AnyKeywordIn(entity, person_keywords) THEN "PERSON"
    ELSE IF AnyKeywordIn(entity, org_keywords) THEN "ORGANIZATION"
    ELSE "ENTITY"

create_triple(subject, relation, obj, rule, confidence) ==
    [ subject      |-> subject,
      relation     |-> relation,
      object       |-> obj,
      subject_type |-> classify_entity(subject),
      object_type  |-> classify_entity(obj),
      confidence   |-> confidence,
      rule         |-> rule ]

(***************************************************************************)
(* The entity span finders.                                                *)
(***************************************************************************)
\* The while loop of find_entity_before, from index i with the parts so far.
RECURSIVE find_entity_before_loop(_, _, _)
find_entity_before_loop(ws, i, entity_parts) ==
    IF i >= 0
    THEN IF is_entity_word(At(ws, i).pos)
         THEN find_entity_before_loop(ws, i - 1, <<At(ws, i).word>> \o entity_parts)
         ELSE IF entity_parts # <<>>
              THEN Join(entity_parts)                                 \* break
              ELSE find_entity_before_loop(ws, i - 1, entity_parts)
    ELSE IF entity_parts # <<>> THEN Join(entity_parts) ELSE None

\* find_entity_before without the gap: the scan gives up at a non-entity
\* token right before the anchor instead of looking further back.
find_entity_before_adjacent(ws, start_index) ==
    IF start_index - 1 >= 0 /\ is_entity_word(At(ws, start_index - 1).pos)
    THEN find_entity_before_loop(ws, start_index - 1, <<>>)
    ELSE None

find_entity_before(ws, start_index) ==
    find_entity_before_loop(ws, start_index - 1, <<>>)

\* The while loop of find_entity_after.
RECURSIVE find_entity_after_loop(_, _, _)
find_entity_after_loop(ws, i, entity_parts) ==
    IF i < Len(ws)
    THEN IF is_entity_word(At(ws, i).pos)
         THEN find_entity_after_loop(ws, i + 1, Append(entity_parts, At(ws, i).word))
         ELSE IF entity_parts # <<>>
              THEN Join(entity_parts)                                 \* break
              ELSE find_entity_after_loop(ws, i + 1, entity_parts)
    ELSE IF entity_parts # <<>> THEN Join(entity_parts) ELSE None

find_entity_after(ws, start_index) ==
    find_entity_after_loop(ws, start_index + 1, <<>>)

\* for i in range(start_index-1, -1, -1): the nearest core verb before.
RECURSIVE find_verb_before_loop(_, _)
find_verb_before_loop(ws, i) ==
    IF i >= 0
    THEN IF StartsWith(At(ws, i).pos, <<"v">>) /\ At(ws, i).word \in core_verbs
         THEN At(ws, i).word
         ELSE find_verb_before_loop(ws, i - 1)
    ELSE None

find_verb_before(ws, start_index) == find_verb_before_loop(ws, start_index - 1)

\* word_list of analyze_sentence: the surfaces.
word_list_of(ws) == [k \in 1..Len(ws) |-> ws[k].word]

\* The first index of target_word in word_list, -1 when there is none.
RECURSIVE find_word_index_loop(_, _, _)
find_word_index_loop(word_list, target_word, i) ==
    IF i < Len(word_list)
    THEN IF At(word_list, i) = target_word
         THEN i
         ELSE find_word_index_loop(word_list, target_word, i + 1)
    ELSE -1

find_word_index(word_list, target_word) ==
    find_word_index_loop(word_list, target_word, 0)

(***************************************************************************)
(* The four rules.  Each has a trigger test on one token, a body that      *)
(* yields the triples of one token position, and the loop over positions.  *)
(***************************************************************************)
\* prep_trigger without its test of the tag.
prep_trigger_any_tag(word, pos) == word \in prepositions

svo_trigger(word, pos) == word \in core_verbs /\ StartsWith(pos, <<"v">>)

prep_trigger(word, pos) == word \in prepositions /\ pos = <<"p">>

appos_trigger(word, pos) == word \in relation_verbs /\ pos = <<"v">>

att_trigger(word, pos) == word = de /\ pos = <<"u", "j">>

\* rule_svo's body with "is not None" in place of the truth test.
rule_svo_at_not_none(ws, i) ==
    LET verb    == At(ws, i).word
        subject == find_entity_before(ws, i)
        obj     == find_entity_after(ws, i)
    IN  IF svo_trigger(At(ws, i).word, At(ws, i).pos) /\ subject # None /\ obj # None
        THEN <<create_triple(subject, verb, obj, "SVO", 80)>>
        ELSE <<>>

\* The body of rule_svo's loop at position i: the triples it appends.
rule_svo_at(ws, i) ==
    LET verb    == At(ws, i).word
        subject == find_entity_before(ws, i)
        obj     == find_entity_after(ws, i)
    IN  IF svo_trigger(At(ws, i).word, At(ws, i).pos) /\ Truthy(subject) /\ Truthy(obj)
        THEN <<create_triple(subject, verb, obj, "SVO", 80)>>
        ELSE <<>>

\* The index of the nearest core verb before start_index, -1 without one.
RECURSIVE nearest_verb_index(_, _)
nearest_verb_index(ws, i) ==
    IF i >= 0
    THEN IF StartsWith(At(ws, i).pos, <<"v">>) /\ At(ws, i).word \in core_verbs
         THEN i
         ELSE nearest_verb_index(ws, i - 1)
    ELSE -1

\* rule_preposition's body with the subject sought before the verb token
\* found, not before the first token with its surface.
rule_preposition_at_nearest(ws, i) ==
    LET prep == At(ws, i).word
        verb == find_verb_before(ws, i)
        obj  == find_entity_after(ws, i)
        verb_index == nearest_verb_index(ws, i - 1)
        subject == find_entity_before(ws, verb_index)
    IN  IF /\ prep_trigger(At(ws, i).word, At(ws, i).pos)
           /\ Truthy(verb) /\ Truthy(obj)
           /\ verb_index # -1
           /\ Truthy(subject)
        THEN <<create_triple(subject, verb \o prep, obj, "PREP", 70)>>
        ELSE <<>>

rule_preposition_at(ws, i) ==
    LET prep == At(ws, i).word
        verb == find_verb_before(ws, i)
        obj  == find_entity_after(ws, i)
        verb_index == find_word_index(word_list_of(ws), verb)
        subject == find_entity_before(ws, verb_index)
    IN  IF /\ prep_trigger(At(ws, i).word, At(ws, i).pos)
           /\ Truthy(verb) /\ Truthy(obj)
           /\ verb_index # -1
           /\ Truthy(subject)
        THEN <<create_triple(subject, verb \o prep, obj, "PREP", 70)>>
        ELSE <<>>

\* rule_apposition's body with the triggering surface as the relation.
rule_apposition_at_surface(ws, i) ==
    LET subject == find_entity_before(ws, i)
        obj     == find_entity_after(ws, i)
    IN  IF appos_trigger(At(ws, i).word, At(ws, i).pos) /\ Truthy(subject) /\ Truthy(obj)
        THEN <<create_triple(subject, At(ws, i).word, obj, "APPOS", 90)>>
        ELSE <<>>

rule_apposition_at(ws, i) ==
    LET subject == find_entity_before(ws, i)
        obj     == find_entity_after(ws, i)
    IN  IF appos_trigger(At(ws, i).word, At(ws, i).pos) /\ Truthy(subject) /\ Truthy(obj)
        THEN <<create_triple(subject, shi, obj, "APPOS", 90)>>
        ELSE <<>>

\* rule_attribution's body with "is not None" in place of the truth test.
rule_attribution_at_not_none(ws, i) ==
    LET modifier == find_entity_before(ws, i)
        head     == find_entity_after(ws, i)
    IN  IF att_trigger(At(ws, i).word, At(ws, i).pos) /\ modifier # None /\ head # None
        THEN <<create_triple(modifier, de, head, "ATT", 85)>>
        ELSE <<>>

\* rule_attribution's body with the relation literal of rule_apposition.
rule_attribution_at_shi(ws, i) ==
    LET modifier == find_entity_before(ws, i)
        head     == find_entity_after(ws, i)
    IN  IF att_trigger(At(ws, i).word, At(ws, i).pos) /\ Truthy(modifier) /\ Truthy(head)
        THEN <<create_triple(modifier, shi, head, "ATT", 85)>>
        ELSE <<>>

rule_attribution_at(ws, i) ==
    LET modifier == find_entity_before(ws, i)
        head     == find_entity_after(ws, i)
    IN  IF att_trigger(At(ws, i).word, At(ws, i).pos) /\ Truthy(modifier) /\ Truthy(head)
        THEN <<create_triple(modifier, de, head, "ATT", 85)>>
        ELSE <<>>

\* for i, (word, pos) in enumerate(words): the four loops.
RECURSIVE rule_svo_loop(_, _, _)
rule_svo_loop(ws, i, out) ==
    IF i < Len(ws) THEN rule_svo_loop(ws, i + 1, out \o rule_svo_at(ws, i)) ELSE out

rule_svo(ws) == rule_svo_loop(ws, 0, <<>>)

RECURSIVE rule_preposition_loop(_, _, _)
rule_preposition_loop(ws, i, out) ==
    IF i < Len(ws)
    THEN rule_preposition_loop(ws, i + 1, out \o rule_preposition_at(ws, i))
    ELSE out

rule_preposition(ws) == rule_preposition_loop(ws, 0, <<>>)

RECURSIVE rule_apposition_loop(_, _, _)
rule_apposition_loop(ws, i, out) ==
    IF i < Len(ws)
    THEN rule_apposition_loop(ws, i + 1, out \o rule_apposition_at(ws, i))
    ELSE out

rule_apposition(ws) == rule_apposition_loop(ws, 0, <<>>)

RECURSIVE rule_attribution_loop(_, _, _)
rule_attribution_loop(ws, i, out) ==
    IF i < Len(ws)
    THEN rule_attribution_loop(ws, i + 1, out \o rule_attribution_at(ws, i))
    ELSE out

rule_attribution(ws) == rule_attribution_loop(ws, 0, <<>>)

\* extract_from_sentence, for a sentence already tagged.
extract_from_sentence(ws) ==
    rule_svo(ws) \o rule_preposition(ws) \o rule_apposition(ws) \o rule_attribution(ws)

(***************************************************************************)
(* post_process: deduplication, then the ranking.                          *)
(***************************************************************************)
\* key = (triple['subject'], triple['relation'], triple['object'])
KeyOf(triple) == <<triple.subject, triple.relation, triple.object>>

\* The deduplication loop: seen is the set of keys, unique_triples the list.
RECURSIVE dedup_loop(_, _, _, _)
dedup_loop(ts, i, seen, unique_triples) ==
    IF i < Len(ts)
    THEN IF KeyOf(At(ts, i)) \notin seen
         THEN dedup_loop(ts, i + 1, seen \cup {KeyOf(At(ts, i))},
                         Append(unique_triples, At(ts, i)))
         ELSE dedup_loop(ts, i + 1, seen, unique_triples)
    ELSE unique_triples

\* A deduplication that keeps the last triple of a key, in place.
RECURSIVE dedup_keep_last_loop(_, _, _)
dedup_keep_last_loop(ts, i, unique_triples) ==
    IF i < Len(ts)
    THEN IF \E j \in (i + 1)..(Len(ts) - 1) : KeyOf(At(ts, j)) = KeyOf(At(ts, i))
         THEN dedup_keep_last_loop(ts, i + 1, unique_triples)
         ELSE dedup_keep_last_loop(ts, i + 1, Append(unique_triples, At(ts, i)))
    ELSE unique_triples

dedup_keep_last(ts) == dedup_keep_last_loop(ts, 0, <<>>)

dedup(ts) == dedup_loop(ts, 0, {}, <<>>)

\* list.sort(key=confidence, reverse=True) is a stable sort: a triple goes
\* behind every triple already placed whose confidence is not smaller.
\* An insertion that puts a triple in front of those of equal confidence.
sort_insert_unstable(sorted, triple) ==
    LET n == Cardinality({k \in 1..Len(sorted) : sorted[k].confidence > triple.confidence})
    IN  SubSeq(sorted, 1, n) \o <<triple>> \o SubSeq(sorted, n + 1, Len(sorted))

sort_insert(sorted, triple) ==
    LET n == Cardinality({k \in 1..Len(sorted) : sorted[k].confidence >= triple.confidence})
    IN  SubSeq(sorted, 1, n) \o <<triple>> \o SubSeq(sorted, n + 1, Len(sorted))

RECURSIVE sort_loop(_, _, _)
sort_loop(ts, i, sorted) ==
    IF i < Len(ts) THEN sort_loop(ts, i + 1, sort_insert(sorted, At(ts, i))) ELSE sorted

\* The sort without reverse=True: stable, in ascending confidence.
RECURSIVE sort_ascending_loop(_, _, _)
sort_ascending_loop(ts, i, sorted) ==
    IF i < Len(ts)
    THEN LET t == At(ts, i)
             n == Cardinality({k \in 1..Len(sorted) : sorted[k].confidence <= t.confidence})
         IN  sort_ascending_loop(ts, i + 1,
                 SubSeq(sorted, 1, n) \o <<t>> \o SubSeq(sorted, n + 1, Len(sorted)))
    ELSE sorted

sort_by_confidence_ascending(ts) == sort_ascending_loop(ts, 0, <<>>)

sort_by_confidence(ts) == sort_loop(ts, 0, <<>>)

post_process(ts) == sort_by_confidence(dedup(ts))

(***************************************************************************)
(* Bounds and the inputs drawn from them.                                  *)
(***************************************************************************)
\* Tokens of one sentence followed step by step (Spec).
MaxWords == 4

\* Sentences of a text, and tokens of each, in the text loop (SpecText).
MaxSentences == 2

MaxTextWords == 4

\* Triples in a list handed to post_process directly (SpecPost).
MaxTriples == 3

\* preprocess_text keeps a sentence of at least this many characters.
MinSentenceChars == 4

Token(word, pos) == [word |-> word, pos |-> pos]

\* What the tagger may return in Spec: entity-like tokens (one with an empty
\* surface), core verbs, a core-verb surface tagged as a noun, a surface
\* that is a preposition and a relation verb under either tag, and the
\* particle.
Vocabulary ==
    { Token(zhishengji, tag_n), Token(nanhai, tag_ns), Token(<<>>, tag_n),
      Token(zhuihui, tag_v), Token(jihua, tag_v), Token(jihua, tag_n),
      Token(wei, tag_p), Token(wei, tag_v), Token(de, tag_uj) }

\* What the tagger may return in SpecText.
TextVocabulary ==
    { Token(zhishengji, tag_n), Token(zhuihui, tag_v),
      Token(wei, tag_p), Token(wei, tag_v), Token(de, tag_uj) }

\* len(sentence) for a sentence the tagger cut into ws.
RECURSIVE SentenceChars(_)
SentenceChars(ws) ==
    IF ws = <<>> THEN 0 ELSE Len(Head(ws).word) + SentenceChars(Tail(ws))

\* The tagged sentences of at most n tokens over vocabulary V that
\* preprocess_text lets through.
TaggedSentences(V, n) ==
    { ws \in UNION { [1..k -> V] : k \in 1..n } : SentenceChars(ws) >= MinSentenceChars }

\* Triples of any content, for post_process alone: two keys, and for a key
\* several confidences and rules.
TripleUniverse ==
    { [ subject |-> zhishengji, relation |-> r, object |-> nanhai,
        subject_type |-> "MILITARY", object_type |-> "LOCATION",
        confidence |-> c[1], rule |-> c[2] ] :
      r \in {shi, de}, c \in { <<90, "APPOS">>, <<85, "ATT">>, <<80, "SVO">> } }

TripleLists == UNION { [1..k -> TripleUniverse] : k \in 0..MaxTriples }

(***************************************************************************)
(* Spec: extract_triples on a text of one sentence, step by step.          *)
(***************************************************************************)
Init ==
    /\ pc = "analyze"
    /\ words = <<>>
    /\ ret = <<>>
    /\ triples = <<>>
    /\ nsent = 0
    /\ all_triples = <<>>
    /\ final_triples = <<>>
    /\ reprocessed = <<>>

\* analyze_sentence: the tagger's answer is any tagged sentence.
AnalyzeSentence ==
    /\ pc = "analyze"
    /\ \E ws \in TaggedSentences(Vocabulary, MaxWords) : words' = ws
    /\ pc' = "svo"
    /\ UNCHANGED <<ret, triples, nsent, all_triples, final_triples, reprocessed>>

\* triples.extend(self.rule_svo(...))
RuleSvo ==
    /\ pc = "svo"
    /\ ret' = rule_svo(words)
    /\ triples' = triples \o rule_svo(words)
    /\ pc' = "prep"
    /\ UNCHANGED <<words, nsent, all_triples, final_triples, reprocessed>>

RulePreposition ==
    /\ pc = "prep"
    /\ ret' = rule_preposition(words)
    /\ triples' = triples \o rule_preposition(words)
    /\ pc' = "appos"
    /\ UNCHANGED <<words, nsent, all_triples, final_triples, reprocessed>>

RuleApposition ==
    /\ pc = "appos"
    /\ ret' = rule_apposition(words)
    /\ triples' = triples \o rule_apposition(words)
    /\ pc' = "att"
    /\ UNCHANGED <<words, nsent, all_triples, final_triples, reprocessed>>

RuleAttribution ==
    /\ pc = "att"
    /\ ret' = rule_attribution(words)
    /\ triples' = triples \o rule_attribution(words)
    /\ pc' = "extend"
    /\ UNCHANGED <<words, nsent, all_triples, final_triples, reprocessed>>

\* all_triples.extend(triples), back in extract_triples.
Extend ==
    /\ pc = "extend"
    /\ all_triples' = all_triples \o triples
    /\ nsent' = nsent + 1
    /\ pc' = "post"
    /\ UNCHANGED <<words, ret, triples, final_triples, reprocessed>>

\* final_triples = self.post_process(all_triples)
PostProcess ==
    /\ pc = "post"
    /\ final_triples' = post_process(all_triples)
    /\ pc' = "done"
    /\ UNCHANGED <<words, ret, triples, nsent, all_triples, reprocessed>>

Next ==
    \/ AnalyzeSentence
    \/ RuleSvo
    \/ RulePreposition
    \/ RuleApposition
    \/ RuleAttribution
    \/ Extend
    \/ PostProcess

Spec == Init /\ [][Next]_vars

(***************************************************************************)
(* SpecText: extract_triples on a text of several sentences; one step is   *)
(* one pass of its loop (extract_from_sentence and the extend).            *)
(***************************************************************************)
InitText ==
    /\ pc = "loop"
    /\ words = <<>>
    /\ ret = <<>>
    /\ triples = <<>>
    /\ nsent = 0
    /\ all_triples = <<>>
    /\ final_triples = <<>>
    /\ reprocessed = <<>>

\* What extract_from_sentence can return for a sentence of the text.
SentenceResults ==
    { extract_from_sentence(ws) : ws \in TaggedSentences(TextVocabulary, MaxTextWords) }

\* One pass of the loop: triples = extract_from_sentence(sentence), then
\* all_triples.extend(triples).
ExtractSentence ==
    /\ pc = "loop"
    /\ nsent < MaxSentences
    /\ \E result \in SentenceResults : all_triples' = all_triples \o result
    /\ nsent' = nsent + 1
    /\ UNCHANGED <<pc, words, ret, triples, final_triples, reprocessed>>

\* The loop ends (the text has no more sentences) and post_process runs.
PostProcessText ==
    /\ pc = "loop"
    /\ final_triples' = post_process(all_triples)
    /\ pc' = "done"
    /\ UNCHANGED <<words, ret, triples, nsent, all_triples, reprocessed>>

NextText == ExtractSentence \/ PostProcessText

SpecText == InitText /\ [][NextText]_vars

(***************************************************************************)
(* SpecPost: post_process on any list of triples, then on its own output.  *)
(***************************************************************************)
InitPost ==
    /\ pc = "post"
    /\ words = <<>>
    /\ ret = <<>>
    /\ triples = <<>>
    /\ nsent = 0
    /\ all_triples \in TripleLists
    /\ final_triples = <<>>
    /\ reprocessed = <<>>

Reprocess ==
    /\ pc = "done"
    /\ reprocessed' = post_process(final_triples)
    /\ pc' = "again"
    /\ UNCHANGED <<words, ret, triples, nsent, all_triples, final_triples>>

NextPost == PostProcess \/ Reprocess

SpecPost == InitPost /\ [][NextPost]_vars

(***************************************************************************)
(* Properties.  The helpers below state what the source is expected to     *)
(* compute without following its loops.                                    *)
(***************************************************************************)
Elems(s) == { s[k] : k \in 1..Len(s) }

Max(S) == CHOOSE x \in S : \A y \in S : y <= x

Min(S) == CHOOSE x \in S : \A y \in S : x <= y

\* The first index (from 0) of a triple of ts with this key.
FirstIndex(ts, key) == Min({ i \in 0..(Len(ts) - 1) : KeyOf(At(ts, i)) = key })

\* A list without two triples of one key, in descending confidence.
IsDedupSorted(ts) ==
    /\ \A i, j \in 1..Len(ts) : i # j => KeyOf(ts[i]) # KeyOf(ts[j])
    /\ \A i \in 1..(Len(ts) - 1) : ts[i].confidence >= ts[i + 1].confidence

\* A tag beginning with "n".
EntityLike(tok) == Len(tok.pos) >= 1 /\ tok.pos[1] = "n"

\* The surfaces of ws[lo..hi] (indices from 0), concatenated in order.
Surface(ws, lo, hi) == Join([k \in 1..(hi - lo + 1) |-> At(ws, lo + k - 1).word])

\* The run of entity-like tokens ending at the one nearest before anchor a.
SpanBefore(ws, a) ==
    LET E == { j \in 0..(a - 1) : EntityLike(At(ws, j)) }
    IN  IF E = {} THEN None
        ELSE LET hi == Max(E)
                 lo == Min({ l \in 0..hi : \A m \in l..hi : EntityLike(At(ws, m)) })
             IN  Surface(ws, lo, hi)

\* The run of entity-like tokens starting at the one nearest after anchor a.
SpanAfter(ws, a) ==
    LET E == { j \in (a + 1)..(Len(ws) - 1) : EntityLike(At(ws, j)) }
    IN  IF E = {} THEN None
        ELSE LET lo == Min(E)
                 hi == Max({ h \in lo..(Len(ws) - 1) : \A m \in lo..h : EntityLike(At(ws, m)) })
             IN  Surface(ws, lo, hi)

\* The five fields a rule sets itself.
Fields(t) == <<t.subject, t.relation, t.object, t.rule, t.confidence>>

\* out lists exactly the positions of S, in increasing order, and the
\* triple of position p has the fields expected[p].
ListsPositions(out, S, expected) ==
    /\ Len(out) = Cardinality(S)
    /\ \A p \in S : Fields(out[Cardinality({ q \in S : q < p }) + 1]) = expected[p]

Positions(ws) == 0..(Len(ws) - 1)

\* C1: post_process returns each (subject, relation, object) key of its
\* input exactly once, the entry kept for a key is the first triple of the
\* input with that key, and no other key appears.
C1_DedupFirstSeen ==
    pc \in {"done", "again"} =>
        /\ \A i \in 1..Len(all_triples) :
              Cardinality({ j \in 1..Len(final_triples) :
                              KeyOf(final_triples[j]) = KeyOf(all_triples[i]) }) = 1
        /\ \A j \in 1..Len(final_triples) :
              /\ \E i \in 1..Len(all_triples) : KeyOf(all_triples[i]) = KeyOf(final_triples[j])
              /\ final_triples[j] = At(all_triples, FirstIndex(all_triples, KeyOf(final_triples[j])))

\* The input holds two different triples of one key and post_process ran.
C1_Witness ==
    /\ pc = "done"
    /\ \E i, j \in 1..Len(all_triples) :
          /\ i < j
          /\ KeyOf(all_triples[i]) = KeyOf(all_triples[j])
          /\ all_triples[i].confidence # all_triples[j].confidence
    /\ Len(final_triples) >= 2

\* C2: the list post_process returns is in descending confidence, and two
\* triples of equal confidence keep the order of their first occurrences in
\* the input.
C2_SortedStable ==
    pc \in {"done", "again"} =>
        /\ \A j \in 1..(Len(final_triples) - 1) :
              final_triples[j].confidence >= final_triples[j + 1].confidence
        /\ \A j, k \in 1..Len(final_triples) :
              (j < k /\ final_triples[j].confidence = final_triples[k].confidence)
                 => FirstIndex(all_triples, KeyOf(final_triples[j]))
                      < FirstIndex(all_triples, KeyOf(final_triples[k]))

\* The input was out of order, and the output holds two triples of equal
\* confidence.
C2_Witness ==
    /\ pc = "done"
    /\ \E i \in 1..(Len(all_triples) - 1) :
          all_triples[i].confidence < all_triples[i + 1].confidence
    /\ \E j, k \in 1..Len(final_triples) :
          j < k /\ final_triples[j].confidence = final_triples[k].confidence

\* C3: post_process applied to its own output returns it unchanged, and a
\* list already deduplicated and in descending confidence is returned
\* unchanged.
C3_Idempotent ==
    /\ pc = "again" => reprocessed = final_triples
    /\ (pc \in {"done", "again"} /\ IsDedupSorted(all_triples))
          => final_triples = all_triples

\* post_process changed its input, and ran again on a result of two or
\* more triples, two of them of equal confidence.
C3_Witness ==
    /\ pc = "again"
    /\ final_triples # all_triples
    /\ \E j \in 1..(Len(final_triples) - 1) :
          final_triples[j].confidence = final_triples[j + 1].confidence

\* C4: for every anchor of the tagged sentence, find_entity_before
\* (find_entity_after) returns the surfaces, in sentence order, of the
\* maximal run of entity-like tokens that ends (starts) at the entity-like
\* token nearest to the anchor on that side, and None exactly when no token
\* on that side is entity-like.
C4_SpanFinder ==
    \A a \in Positions(words) :
        /\ find_entity_before(words, a) = SpanBefore(words, a)
        /\ find_entity_after(words, a) = SpanAfter(words, a)
        /\ find_entity_before(words, a) = None
              <=> ~\E j \in 0..(a - 1) : EntityLike(At(words, j))
        /\ find_entity_after(words, a) = None
              <=> ~\E j \in (a + 1)..(Len(words) - 1) : EntityLike(At(words, j))

\* An anchor with a non-entity token right before it, an entity run further
\* back, and a non-entity token that ends the run; the rules have run.
C4_Witness ==
    /\ pc = "prep"
    /\ \E a \in Positions(words) :
          /\ a >= 3
          /\ ~EntityLike(At(words, a - 1))
          /\ EntityLike(At(words, a - 2))
          /\ ~EntityLike(At(words, a - 3))
          /\ find_entity_before(words, a) = At(words, a - 2).word
          /\ find_entity_before(words, a) # <<>>

\* The positions where rule_svo's trigger holds.
SvoTriggered(ws) ==
    { i \in Positions(ws) :
        At(ws, i).word \in core_verbs /\ Len(At(ws, i).pos) >= 1 /\ At(ws, i).pos[1] = "v" }

\* What the triple of a triggered position holds.
SvoExpected(ws) ==
    [ i \in SvoTriggered(ws) |->
        <<SpanBefore(ws, i), At(ws, i).word, SpanAfter(ws, i), "SVO", 80>> ]

\* The sentence of the scenario: 直升机/n 坠毁/v 南海/ns.
SvoExample == << Token(zhishengji, tag_n), Token(zhuihui, tag_v), Token(nanhai, tag_ns) >>

\* C5 as stated: rule_svo returns exactly one triple for each triggered
\* position whose backward and forward spans are both not None.
C5_Original ==
    pc = "prep" =>
        ListsPositions(ret,
                       { i \in SvoTriggered(words) :
                           SpanBefore(words, i) # None /\ SpanAfter(words, i) # None },
                       SvoExpected(words))

\* C5, amended: rule_svo returns exactly one triple for each triggered
\* position whose backward and forward spans are both not None and not the
\* empty string, and nothing else; the triple has the spans as subject and
\* object, the verb surface as relation, confidence 0.8 and rule SVO.  The
\* sentence 直升机/n 坠毁/v 南海/ns yields the one triple (直升机, 坠毁, 南海).
C5_SvoEmission ==
    pc = "prep" =>
        /\ ListsPositions(ret,
                          { i \in SvoTriggered(words) :
                              Truthy(SpanBefore(words, i)) /\ Truthy(SpanAfter(words, i)) },
                          SvoExpected(words))
        /\ words = SvoExample =>
              /\ Len(ret) = 1
              /\ Fields(ret[1]) = <<zhishengji, zhuihui, nanhai, "SVO", 80>>

\* rule_svo ran on the sentence of the scenario.
C5_Witness ==
    /\ pc = "prep"
    /\ words = SvoExample
    /\ Len(ret) = 1

\* The positions where rule_preposition's trigger holds.
PrepTriggered(ws) ==
    { i \in Positions(ws) : At(ws, i).word \in prepositions /\ At(ws, i).pos = <<"p">> }

\* The positions before i of a token tagged v... with a core-verb surface.
VerbsBefore(ws, i) ==
    { j \in 0..(i - 1) :
        /\ Len(At(ws, j).pos) >= 1 /\ At(ws, j).pos[1] = "v"
        /\ At(ws, j).word \in core_verbs }

\* The surface of the nearest such token.
NearestVerb(ws, i) == At(ws, Max(VerbsBefore(ws, i))).word

\* The first index in the whole sentence of a token with that surface.
FirstOccurrence(ws, surface) == Min({ j \in Positions(ws) : At(ws, j).word = surface })

PrepSubject(ws, i) == SpanBefore(ws, FirstOccurrence(ws, NearestVerb(ws, i)))

\* What the triple of a triggered position with a verb before it holds.
PrepExpected(ws) ==
    [ i \in { p \in PrepTriggered(ws) : VerbsBefore(ws, p) # {} } |->
        <<PrepSubject(ws, i), NearestVerb(ws, i) \o At(ws, i).word,
          SpanAfter(ws, i), "PREP", 70>> ]

\* C6 as stated: at a triggered position, rule_preposition emits a triple
\* iff the verb, the object and the subject are all present (not None).
C6_Original ==
    pc = "appos" =>
        ListsPositions(ret,
                       { i \in PrepTriggered(words) :
                           /\ VerbsBefore(words, i) # {}
                           /\ SpanAfter(words, i) # None
                           /\ PrepSubject(words, i) # None },
                       PrepExpected(words))

\* C6, amended: at a position whose surface is a preposition tagged exactly
\* p, rule_preposition takes the nearest core verb before it, the forward
\* span as object and the backward span from the first index of that verb
\* surface in the sentence as subject; it emits a triple iff the verb
\* exists and object and subject are not None and not the empty string,
\* with relation verb + preposition, confidence 0.7 and rule PREP.
C6_PrepEmission ==
    pc = "appos" =>
        ListsPositions(ret,
                       { i \in PrepTriggered(words) :
                           /\ VerbsBefore(words, i) # {}
                           /\ Truthy(SpanAfter(words, i))
                           /\ Truthy(PrepSubject(words, i)) },
                       PrepExpected(words))

\* rule_preposition ran at a preposition whose nearest verb token is not
\* the first token of the sentence with that surface; the span before the
\* verb token itself is there, the one before the first occurrence differs.
C6_Witness ==
    /\ pc = "appos"
    /\ \E i \in PrepTriggered(words) :
          /\ VerbsBefore(words, i) # {}
          /\ Truthy(SpanAfter(words, i))
          /\ FirstOccurrence(words, NearestVerb(words, i)) # Max(VerbsBefore(words, i))
          /\ Truthy(SpanBefore(words, Max(VerbsBefore(words, i))))
          /\ PrepSubject(words, i) # SpanBefore(words, Max(VerbsBefore(words, i)))

\* Every triple the run holds: the rule's return value, the sentence's
\* list, the accumulator and the output.
AllHeld == Elems(ret) \cup Elems(triples) \cup Elems(all_triples) \cup Elems(final_triples)

\* C7: every triple with rule APPOS, returned by rule_apposition or held by
\* extract_triples, has relation 是 and confidence 0.9, and rule_apposition
\* returns nothing but such triples, whichever relation verb triggered it.
C7_ApposLiteral ==
    /\ \A t \in AllHeld : t.rule = "APPOS" => (t.relation = shi /\ t.confidence = 90)
    /\ pc = "att" =>
          \A t \in Elems(ret) : t.rule = "APPOS" /\ t.relation = shi /\ t.confidence = 90

\* An APPOS triple is in the output of a sentence that has no 是 token: a
\* different relation verb triggered it.
C7_Witness ==
    /\ pc = "done"
    /\ \E t \in Elems(final_triples) : t.rule = "APPOS"
    /\ \A i \in Positions(words) : At(words, i).word # shi
    /\ \E i \in Positions(words) : At(words, i).word = wei /\ At(words, i).pos = <<"v">>

\* C8: the subject and the object of every triple, in every list of the
\* run, are non-empty strings.
C8_NonEmptyEndpoints ==
    \A t \in AllHeld :
        /\ t.subject # None /\ t.subject # <<>>
        /\ t.object # None /\ t.object # <<>>

\* The run went through a sentence with a triggered position whose
\* backward span is there and whose forward span is the empty string (an
\* entity-like token with an empty surface).
C8_Witness ==
    /\ pc = "done"
    /\ \E i \in Positions(words) :
          /\ \/ svo_trigger(At(words, i).word, At(words, i).pos)
             \/ appos_trigger(At(words, i).word, At(words, i).pos)
             \/ att_trigger(At(words, i).word, At(words, i).pos)
          /\ Truthy(find_entity_before(words, i))
          /\ find_entity_after(words, i) = <<>>

\* The part-of-speech tags tried against the lexicons.
Tags ==
    { <<"n">>, <<"n", "r">>, <<"n", "s">>, <<"n", "t">>, <<"n", "z">>,
      <<"v">>, <<"v", "n">>, <<"v", "d">>, <<"p">>, <<"u", "j">>, <<"u">>,
      <<"a">>, <<"d">>, <<"c">>, <<"m">>, <<"x">>, <<>> }

\* Every surface of a lexicon, and those of the vocabulary.
Surfaces ==
    core_verbs \cup prepositions \cup relation_verbs \cup {de}
        \cup { tok.word : tok \in Vocabulary }

\* The rules whose trigger test the token (word, pos) satisfies.
Triggers(word, pos) ==
    { r \in {"SVO", "PREP", "APPOS", "ATT"} :
        \/ r = "SVO" /\ svo_trigger(word, pos)
        \/ r = "PREP" /\ prep_trigger(word, pos)
        \/ r = "APPOS" /\ appos_trigger(word, pos)
        \/ r = "ATT" /\ att_trigger(word, pos) }

\* The tokens of a sentence, as (surface, tag) pairs.
TokensOf(ws) == { <<ws[k].word, ws[k].pos>> : k \in 1..Len(ws) }

\* Every token the lexicons and the tags above can form.
LexiconTokens == Surfaces \X Tags

\* No token the lexicons can form satisfies two trigger tests.
LexiconsExclusive == \A tok \in LexiconTokens : Cardinality(Triggers(tok[1], tok[2])) <= 1

\* C9 as stated: some token (one surface, one tag), of the lexicons or of
\* the sentence at hand, satisfies the trigger test of at least two of the
\* four rules.
C9_Original ==
    \E tok \in LexiconTokens \cup TokensOf(words) :
        Cardinality(Triggers(tok[1], tok[2])) >= 2

\* C9, amended: no token (one surface, one tag) satisfies the trigger test
\* of two rules, over the lexicons and in every tagged sentence; a surface
\* (为) triggers PREP under tag p and APPOS under tag v, never both at once.
C9_OneRulePerToken ==
    /\ LexiconsExclusive
    /\ \A tok \in TokensOf(words) : Cardinality(Triggers(tok[1], tok[2])) <= 1
    /\ Triggers(wei, <<"p">>) = {"PREP"}
    /\ Triggers(wei, <<"v">>) = {"APPOS"}

\* A sentence whose output holds triples of two rules, anchored at
\* different tokens.
C9_Witness ==
    /\ pc = "done"
    /\ \E s, t \in Elems(final_triples) : s.rule # t.rule
    /\ \E i \in Positions(words) : Triggers(At(words, i).word, At(words, i).pos) # {}

\* The relation strings each rule can produce.
SvoRelations == core_verbs

PrepRelations == { v \o p : v \in core_verbs, p \in prepositions }

RuleOfRelation(relation) ==
    IF relation \in SvoRelations THEN "SVO"
    ELSE IF relation \in PrepRelations THEN "PREP"
    ELSE IF relation = shi THEN "APPOS"
    ELSE IF relation = de THEN "ATT"
    ELSE "NONE"

ConfidenceOfRule(rule) ==
    IF rule = "SVO" THEN 80
    ELSE IF rule = "PREP" THEN 70
    ELSE IF rule = "APPOS" THEN 90
    ELSE 85

\* The four sets of relation strings are pairwise disjoint.
RelationsDisjoint ==
    /\ SvoRelations \cap PrepRelations = {}
    /\ shi \notin SvoRelations \cup PrepRelations
    /\ de \notin SvoRelations \cup PrepRelations
    /\ shi # de

\* C10: two triples created by the rules with the same key are equal in
\* every field: the four sets of relation strings are pairwise disjoint,
\* the relation determines the rule, the rule the confidence, and the
\* types follow from subject and object; so the output of post_process
\* holds the same triples as its input.
C10_KeyDeterminesTriple ==
    /\ RelationsDisjoint
    /\ \A s, t \in Elems(all_triples) : KeyOf(s) = KeyOf(t) => s = t
    /\ \A t \in Elems(all_triples) :
          /\ t.rule = RuleOfRelation(t.relation)
          /\ t.confidence = ConfidenceOfRule(t.rule)
          /\ t.subject_type = classify_entity(t.subject)
          /\ t.object_type = classify_entity(t.object)
    /\ pc = "done" => Elems(final_triples) = Elems(all_triples)

\* The accumulator holds the same key twice, from two rule applications,
\* next to triples of another rule, and post_process dropped the copy.
C10_Witness ==
    /\ pc = "done"
    /\ \E i, j \in 1..Len(all_triples) : i < j /\ KeyOf(all_triples[i]) = KeyOf(all_triples[j])
    /\ \E s, t \in Elems(all_triples) : s.rule = "PREP" /\ t.rule = "APPOS"
    /\ Len(final_triples) < Len(all_triples)

====
